---- MODULE Spec2Model ----
(***************************************************************************)
(* warthog::memory::data_column (include/warthog/memory/data_table.h).     *)
(*                                                                         *)
(* The specifications of this module:                                      *)
(*   Spec        the growable column buffer: reserve, resize, writes       *)
(*               through at(), destruction, over a model of the allocator  *)
(*               (std::malloc or a pmr memory resource);                   *)
(*   GrowSpec    reserve and resize alone, the allocator never failing;    *)
(*   AccessSpec  the checked reads at() and as() on resized columns;       *)
(*   CellSpec    the cell constructors (null_value, from_int, from_float,  *)
(*               try_from_string, try_from_char_) and the projection       *)
(*               to_varient / get_string_ptr, byte by byte.                *)
(***************************************************************************)
EXTENDS Integers, Sequences, FiniteSets, TLC

VARIABLES
    build,       \* [ndebug, little]: NDEBUG defined?, std::endian::native == little?
    status,      \* "live" | "destroyed" | "aborted" (assert) | "crashed" (fault)
    m_res,       \* TRUE iff a std::pmr::memory_resource* was supplied
    m_data,      \* 0 is nullptr, otherwise the address of a heap buffer
    m_size,
    m_reserved,
    heap,        \* address -> [count, via, cells] of the live allocations
    misfrees,    \* deallocate / free calls that release no live allocation
    last,        \* the last call on the column and how it ended
    src,         \* CellSpec: the constructor call that made `cell`
    cell,        \* CellSpec: a data_type value, eight bytes
    variant,     \* CellSpec: the variant_type to_varient returned
    seen         \* CellSpec: the characters read through a returned string_view

vars == <<build, status, m_res, m_data, m_size, m_reserved, heap, misfrees,
          last, src, cell, variant, seen>>

colvars == <<status, m_res, m_data, m_size, m_reserved, heap, misfrees, last>>
cellvars == <<src, cell, variant, seen>>

----------------------------------------------------------------------------
(* Bounds of the model *)

\* size_type is uint32_t; the model keeps its wrap-around at 2^SizeBits.
SizeBits == 5
\* reserve / resize arguments are 0..MaxCount and the greatest size_type.
MaxCount == 1
\* Written positions are 0..MaxPos; read positions those and the last
\* position a column can have.
MaxPos == 0
\* try_from_string arguments have 0..MaxStrLen characters.
MaxStrLen == 7

SizeMod == 2 ^ SizeBits
SizeMax == SizeMod - 1

Min(a, b) == IF a < b THEN a ELSE b
Max(a, b) == IF a > b THEN a ELSE b

----------------------------------------------------------------------------
(* data_type: eight bytes, read through one of its union members *)

sso_width == 3
sso_mask == 7
CellBytes == 8

Kinds == {"STRING", "INT", "FLOAT"}

\* A build: whether NDEBUG is defined (assert compiles to nothing), and the
\* byte order of the target.
Builds == [ndebug : BOOLEAN, little : BOOLEAN]

\* Byte k (1-based, in memory order) of a 64-bit word holding the small
\* two's-complement integer v, for either byte order.
WordBytes(v, little) ==
    LET le == [k \in 1..CellBytes |->
                  IF k <= 3 THEN ((v % (256 ^ 3)) \div (256 ^ (k - 1))) % 256
                  ELSE IF v < 0 THEN 255 ELSE 0]
    IN  [k \in 1..CellBytes |-> IF little THEN le[k] ELSE le[CellBytes + 1 - k]]

\* std::numeric_limits<int64_t>::min(), 0x8000000000000000
Int64MinBytes(little) ==
    [k \in 1..CellBytes |->
        IF (little /\ k = CellBytes) \/ (~little /\ k = 1) THEN 128 ELSE 0]

\* std::numeric_limits<double>::lowest(), 0xFFEFFFFFFFFFFFFF
DoubleLowestBytes(little) ==
    [k \in 1..CellBytes |->
        IF (little /\ k = 7) \/ (~little /\ k = 2) THEN 239 ELSE 255]

\* Bit patterns of the doubles 0.0 and 1.0 (0x3FF0000000000000)
DoubleBytes(v, little) ==
    LET be == IF v = 1 THEN <<63, 240, 0, 0, 0, 0, 0, 0>>
              ELSE <<0, 0, 0, 0, 0, 0, 0, 0>>
    IN  [k \in 1..CellBytes |-> IF little THEN be[CellBytes + 1 - k] ELSE be[k]]

\* The eight bytes in order of significance, least significant first: the
\* value of s.ptr (or of i) as a base-256 numeral.
Numeral(value, little) ==
    [k \in 1..CellBytes |-> IF little THEN value[k] ELSE value[CellBytes + 1 - k]]

nullptr == [k \in 1..CellBytes |-> 0]

null_value == nullptr

\* std::optional arguments are <<>> (nullopt) or <<v>>.
from_int(value, little) ==
    IF value = <<>> THEN Int64MinBytes(little) ELSE WordBytes(value[1], little)

from_float(value, little) ==
    IF value = <<>> THEN DoubleLowestBytes(little)
    ELSE DoubleBytes(value[1], little)

\* The tag byte: sso[0] on little endian, sso[7] on big endian.
TagIndex(little) == IF little THEN 1 ELSE CellBytes
\* Where the inline characters start: &sso[1] or &sso[0].
CharBase(little) == IF little THEN 1 ELSE 0

try_from_string(value, little) ==
    IF Len(value) = 0 \/ Len(value) > 6 THEN null_value
    ELSE [k \in 1..CellBytes |->
             IF k = TagIndex(little) THEN Len(value)
             ELSE IF k - CharBase(little) \in 1..Len(value)
                  THEN value[k - CharBase(little)]
                  ELSE 0]

\* value is an address (0 for nullptr); the cell holds it as s.ptr.
try_from_char_(value, little) == WordBytes(value, little)

is_int_null(value, little) == value = Int64MinBytes(little)
is_float_null(value, little) == value = DoubleLowestBytes(little)
\* is_string_null with its comparison the wrong way round.
is_string_null_inverted(value, little) == Numeral(value, little) # nullptr
is_string_null(value, little) == Numeral(value, little) = nullptr

----------------------------------------------------------------------------
(* The caller's arena: one 8-aligned out-of-line string, "hi!", with its   *)
(* size_t length in the word before it.                                    *)

ArenaPtr == 64
ArenaChars == <<104, 105, 33>>
ArenaLengthWord(little) == WordBytes(Len(ArenaChars), little)

\* The size_t a word of memory holds (the model's lengths fit three bytes).
WordValue(word, little) ==
    LET n == Numeral(word, little) IN n[1] + 256 * n[2] + 65536 * n[3]

(* A std::string_view: where it points, its size, and the characters that  *)
(* were there when it was made. data is "null" (a default string_view),    *)
(* "param" (the by-value parameter `value` of get_string_ptr, whose        *)
(* lifetime ends when get_string_ptr returns), "arena", or "wild" (no      *)
(* mapped address).                                                        *)
View(data, size, chars) == [data |-> data, size |-> size, chars |-> chars]

\* assert((tag & sso_mask) == tag) on the inline branch
get_string_ptr_assert(value, little) ==
    LET tag == value[TagIndex(little)]
    IN  (tag % (sso_mask + 1)) # 0 => (tag % (sso_mask + 1)) = tag

get_string_ptr(value, little) ==
    LET tag == value[TagIndex(little)]
        base == CharBase(little)
    IN  IF (tag % (sso_mask + 1)) # 0
        THEN View("param", tag,
                  SubSeq(value, base + 1, Min(base + tag, CellBytes)))
        ELSE IF Numeral(value, little) = nullptr
        THEN View("null", 0, <<>>)
        ELSE IF value = try_from_char_(ArenaPtr, little)
        THEN LET count == WordValue(ArenaLengthWord(little), little)
             IN  View("arena", count, SubSeq(ArenaChars, 1, count))
        ELSE View("wild", 0, <<>>)

(* variant_type: index names the alternative held.                         *)
Variant(index, bits, sv) == [index |-> index, bits |-> bits, sv |-> sv]
NoView == View("null", 0, <<>>)
NullVariant == Variant("nullptr_t", <<>>, NoView)
NoVariant == [v |-> Variant("none", <<>>, NoView), t |-> "none"]

to_varient(value, t, little) ==
    CASE t = "STRING" ->
            IF is_string_null(value, little) THEN NullVariant
            ELSE Variant("string_view", <<>>, get_string_ptr(value, little))
      [] t = "INT" ->
            IF is_int_null(value, little) THEN NullVariant
            ELSE Variant("int64_t", value, NoView)
      [] t = "FLOAT" ->
            IF is_float_null(value, little) THEN NullVariant
            ELSE Variant("double", value, NoView)

\* How a call of to_varient ends: an assert of a debug build aborts, reading
\* the length word of an unmapped pointer faults.
to_varient_status(value, t, b) ==
    IF t # "STRING" \/ is_string_null(value, b.little) THEN "live"
    ELSE IF ~b.ndebug /\ ~get_string_ptr_assert(value, b.little) THEN "aborted"
    ELSE IF get_string_ptr(value, b.little).data = "wild" THEN "crashed"
    ELSE "live"

\* What reading the characters of a string_view can give. A view into the
\* dead parameter of get_string_ptr dangles: the read may still find the
\* characters, or whatever has since been written to that stack slot.
DeadBytes == {0, 170}
ViewReads(sv) ==
    IF sv.data = "param"
    THEN {sv.chars} \cup [1..Len(sv.chars) -> DeadBytes]
    ELSE {sv.chars}

----------------------------------------------------------------------------
(* The column buffer over a model of the allocator                         *)

RECURSIVE bit_width(_)
\* std::bit_width
bit_width(n) == IF n = 0 THEN 0 ELSE 1 + bit_width(n \div 2)

\* A cell of a buffer that nothing has written yet.
Uninit == <<>>
\* An access outside every allocation that the hardware or a sanitizer
\* stops, instead of yielding a value.
Trap == <<-1>>

\* The values the caller fills and writes with.
Values(little) == {null_value, try_from_string(<<97>>, little)}
\* What a read of indeterminate memory (beyond the buffer, or never written)
\* can give.
Indeterminate(little) == Values(little) \cup {Trap}
\* What static_cast<size_type>(1) << shift can give for a negative shift:
\* the shift count taken modulo the width, or a zero result.
ShiftUB == {0, 2 ^ (SizeBits - 1)}

\* What the environment decides during one call: whether the allocator
\* succeeds (ok), what indeterminate memory holds (g), what an undefined
\* shift gives (sh). A choice the call cannot consult is left at its first
\* value, so that one call is one step.
Env(ok, g, sh) == [ok |-> ok, g |-> g, sh |-> sh]
Envs(little, allocates, indeterminate, shifts) ==
    [ok : IF allocates THEN BOOLEAN ELSE {TRUE},
     g  : IF indeterminate THEN Indeterminate(little) ELSE {null_value},
     sh : IF shifts THEN ShiftUB ELSE {0}]

Via == IF m_res THEN "memory_resource" ELSE "malloc"

Buffer(count, via) ==
    [count |-> count, via |-> via, cells |-> [i \in 1..count |-> Uninit]]

FreshAddress(h) ==
    CHOOSE a \in 1..(Cardinality(DOMAIN h) + 1) :
        /\ a \notin DOMAIN h
        /\ \A b \in 1..(a - 1) : b \in DOMAIN h

\* The column and the heap as one value, threaded through the private
\* member functions: exc is the exception in flight, ub the undefined
\* behaviour the call has run into, nomem whether the allocator failed,
\* assertion the function whose assert failed.
Col ==
    [data |-> m_data, size |-> m_size, reserved |-> m_reserved,
     heap |-> heap, misfrees |-> misfrees, status |-> status,
     exc |-> "none", ub |-> {}, nomem |-> FALSE, assertion |-> "none"]

Abort(s, fn) == [s EXCEPT !.status = "aborted", !.assertion = fn]

Running(s) == s.status = "live" /\ s.exc = "none"

\* alloc_: the new state and the pointer returned. m_res->allocate throws
\* std::bad_alloc on failure; std::malloc returns a null pointer.
alloc_(s, count, env) ==
    IF ~build.ndebug /\ ~(count > 0)
    THEN [s |-> Abort(s, "alloc_"), ptr |-> 0]
    ELSE IF env.ok
    THEN LET a == FreshAddress(s.heap)
         IN  [s |-> [s EXCEPT !.heap = (a :> Buffer(count, Via)) @@ s.heap],
              ptr |-> a]
    ELSE IF m_res
    THEN [s |-> [s EXCEPT !.exc = "bad_alloc", !.nomem = TRUE], ptr |-> 0]
    ELSE [s |-> [s EXCEPT !.nomem = TRUE], ptr |-> 0]

\* A deallocation is in order when it releases a live buffer of this
\* allocator, with the cell count it was allocated with.
InOrder(h, ptr, count) ==
    /\ ptr \in DOMAIN h
    /\ h[ptr].via = Via
    /\ h[ptr].count = count
    /\ count > 0

dealloc_(s, ptr, count) ==
    IF ~build.ndebug /\ ~(count > 0)
    THEN Abort(s, "dealloc_")
    ELSE [s EXCEPT
            !.heap = [a \in DOMAIN s.heap \ {ptr} |-> s.heap[a]],
            !.misfrees = IF InOrder(s.heap, ptr, count) THEN @
                         ELSE @ \cup {[ptr |-> ptr, count |-> count]}]

\* m_data[i] read: the cell, or what indeterminate memory gives.
Load(h, ptr, i, g) ==
    IF ptr \notin DOMAIN h THEN Trap
    ELSE IF i < h[ptr].count /\ h[ptr].cells[i + 1] # Uninit
    THEN h[ptr].cells[i + 1]
    ELSE g

\* The accesses of a loop over [lo, hi) of the buffer at ptr that are
\* undefined: through a null pointer, or at or beyond its count.
OutOfBounds(h, ptr, lo, hi) ==
    lo < hi /\ (ptr \notin DOMAIN h \/ hi > h[ptr].count)

\* std::copy_n(old_data, n, new_data)
copy_n(s, old_data, n, new_data, env) ==
    IF n = 0 THEN s
    ELSE IF old_data \notin DOMAIN s.heap \/ new_data \notin DOMAIN s.heap
    THEN [s EXCEPT !.status = "crashed", !.ub = @ \cup {"null"}]
    ELSE LET h == s.heap
             bad == \/ OutOfBounds(h, old_data, 0, n)
                    \/ OutOfBounds(h, new_data, 0, n)
                    \/ \E i \in 0..(n - 1) : h[old_data].cells[i + 1] = Uninit
             copied == [i \in 1..h[new_data].count |->
                           IF i <= n THEN Load(h, old_data, i - 1, env.g)
                           ELSE h[new_data].cells[i]]
         IN  IF bad /\ env.g = Trap
             THEN [s EXCEPT !.status = "crashed", !.ub = @ \cup {"bounds"}]
             ELSE [s EXCEPT !.heap[new_data].cells = copied,
                            !.ub = IF bad THEN @ \cup {"bounds"} ELSE @]

\* std::fill(m_data + lo, m_data + hi, value)
fill(s, lo, hi, value, env) ==
    IF lo >= hi THEN s
    ELSE IF s.data \notin DOMAIN s.heap
    THEN [s EXCEPT !.status = "crashed", !.ub = @ \cup {"null"}]
    ELSE LET h == s.heap
             bad == OutOfBounds(h, s.data, lo, hi)
             filled == [i \in 1..h[s.data].count |->
                           IF lo < i /\ i <= hi THEN value
                           ELSE h[s.data].cells[i]]
         IN  IF bad /\ env.g = Trap
             THEN [s EXCEPT !.status = "crashed", !.ub = @ \cup {"bounds"}]
             ELSE [s EXCEPT !.heap[s.data].cells = filled,
                            !.ub = IF bad THEN @ \cup {"bounds"} ELSE @]

\* reserve_ without its test of count against m_reserved: it reallocates to
\* whatever count it is given.
reserve_unguarded(s, count, env) ==
    LET old_data == s.data
        a == alloc_(s, count, env)
        new_data == a.ptr
        c == copy_n(a.s, old_data, s.size, new_data, env)
        d == dealloc_(c, old_data, s.reserved)
    IN  IF ~Running(a.s) THEN a.s
        ELSE IF ~Running(c) THEN c
        ELSE IF ~Running(d) THEN d
        ELSE [d EXCEPT !.data = new_data, !.reserved = count]

reserve_(s, count, env) ==
    IF count > s.reserved
    THEN LET old_data == s.data
             a == alloc_(s, count, env)
             new_data == a.ptr
             c == copy_n(a.s, old_data, s.size, new_data, env)
             d == dealloc_(c, old_data, s.reserved)
         IN  IF ~Running(a.s) THEN a.s
             ELSE IF ~Running(c) THEN c
             ELSE IF ~Running(d) THEN d
             ELSE [d EXCEPT !.data = new_data, !.reserved = count]
    ELSE s

auto_reserve_(s, count, env) ==
    IF count > s.reserved
    THEN LET shift == Min(bit_width(count) - 2, 3)
             step == IF shift < 0 THEN env.sh ELSE 2 ^ shift
             t == IF shift < 0 THEN [s EXCEPT !.ub = @ \cup {"shift"}] ELSE s
         IN  reserve_(t, (s.reserved + step) % SizeMod, env)
    ELSE s

\* resize(count, value)
resize_(s, count, value, env) ==
    IF count > s.size
    THEN LET r == auto_reserve_(s, count, env)
             f == fill(r, r.size, count, value, env)
         IN  IF ~Running(r) THEN r
             ELSE IF ~Running(f) THEN f
             ELSE [f EXCEPT !.size = count]
    ELSE [s EXCEPT !.size = count]

\* at(pos): the state and the cell returned.
at_(s, pos, env) ==
    IF pos >= s.size
    THEN [s |-> [s EXCEPT !.exc = "out_of_range"], cell |-> Uninit]
    ELSE LET bad == OutOfBounds(s.heap, s.data, pos, pos + 1)
             v == Load(s.heap, s.data, pos, env.g)
         IN  IF v = Trap
             THEN [s |-> [s EXCEPT !.status = "crashed",
                                   !.ub = @ \cup {"bounds"}],
                   cell |-> Uninit]
             ELSE [s |-> [s EXCEPT !.ub = IF bad THEN @ \cup {"bounds"} ELSE @],
                   cell |-> v]

\* at(pos) = value: a write through the reference at() returns.
write_(s, pos, value, env) ==
    IF pos >= s.size THEN [s EXCEPT !.exc = "out_of_range"]
    ELSE IF s.data \notin DOMAIN s.heap
    THEN [s EXCEPT !.status = "crashed", !.ub = @ \cup {"null"}]
    ELSE IF pos >= s.heap[s.data].count
    THEN IF env.g = Trap
         THEN [s EXCEPT !.status = "crashed", !.ub = @ \cup {"bounds"}]
         ELSE [s EXCEPT !.ub = @ \cup {"bounds"}]
    ELSE [s EXCEPT !.heap[s.data].cells[pos + 1] = value]

\* ~data_column
destroy_(s) ==
    IF s.data # 0
    THEN LET d == dealloc_(s, s.data, s.reserved)
         IN  IF ~Running(d) THEN d
             ELSE [d EXCEPT !.data = 0, !.status = "destroyed"]
    ELSE [s EXCEPT !.status = "destroyed"]

----------------------------------------------------------------------------
(* Spec: calls on one column                                               *)

Counts == 0..MaxCount \cup {SizeMax}
Positions == 0..MaxPos
ReadPositions == Positions \cup {SizeMax - 1}

\* The cells of the buffer at ptr (none behind a null pointer).
Cells(h, ptr) == IF ptr \in DOMAIN h THEN h[ptr].cells ELSE <<>>

\* Whether cell i of the column is a written cell of its buffer.
Stored(h, ptr, i) == i < Len(Cells(h, ptr)) /\ Cells(h, ptr)[i + 1] # Uninit

\* Some cell of [0, m_size) is not a written cell of the buffer: reading it
\* consults indeterminate memory.
Unsound == \E i \in 0..(m_size - 1) : ~Stored(heap, m_data, i)

\* The column before the call, kept for the record of the call.
Old == [data |-> m_data, size |-> m_size, reserved |-> m_reserved]

Call(op, count, value, kind, s, result, v) ==
    [op |-> op, arg |-> count, value |-> value, kind |-> kind, old |-> Old,
     exc |-> s.exc, ub |-> s.ub, nomem |-> s.nomem,
     assertion |-> s.assertion, result |-> result, variant |-> v]

NoCall ==
    [op |-> "none", arg |-> 0, value |-> Uninit, kind |-> "none",
     old |-> [data |-> 0, size |-> 0, reserved |-> 0],
     exc |-> "none", ub |-> {}, nomem |-> FALSE, assertion |-> "none",
     result |-> Uninit, variant |-> NoVariant.v]

\* The call returns (or throws, aborts, faults) and leaves the column as s.
Becomes(s) ==
    /\ m_data' = s.data
    /\ m_size' = s.size
    /\ m_reserved' = s.reserved
    /\ heap' = s.heap
    /\ misfrees' = s.misfrees
    /\ status' = s.status
    /\ UNCHANGED <<build, m_res, cellvars>>

\* The buffer code never reads the byte order; CellSpec covers both.
Init ==
    /\ build \in {b \in Builds : b.little}
    /\ m_res \in BOOLEAN
    /\ status = "live"
    /\ m_data = 0
    /\ m_size = 0
    /\ m_reserved = 0
    /\ heap = <<>>
    /\ misfrees = {}
    /\ last = NoCall
    /\ src = [fn |-> "none", arg |-> <<>>]
    /\ cell = null_value
    /\ variant = NoVariant
    /\ seen = [read |-> FALSE, chars |-> <<>>]

reserve ==
    \E count \in Counts :
    \E env \in Envs(build.little, count > m_reserved,
                    count > m_reserved /\ Unsound, FALSE) :
        /\ status = "live"
        /\ LET s == reserve_(Col, count, env)
           IN  /\ Becomes(s)
               /\ last' = Call("reserve", count, Uninit, "none", s, Uninit,
                               NoVariant.v)

resize ==
    \E count \in Counts, value \in Values(build.little) :
    \E env \in Envs(build.little, count > m_size /\ count > m_reserved,
                    count > m_size,
                    count > m_size /\ count > m_reserved
                        /\ bit_width(count) < 2) :
        /\ status = "live"
        /\ LET s == resize_(Col, count, value, env)
           IN  /\ Becomes(s)
               /\ last' = Call("resize", count, value, "none", s, Uninit,
                               NoVariant.v)

at ==
    \E pos \in ReadPositions :
    \E env \in Envs(build.little, FALSE, pos < m_size /\ Unsound, FALSE) :
        /\ status = "live"
        /\ LET r == at_(Col, pos, env)
           IN  /\ Becomes(r.s)
               /\ last' = Call("at", pos, Uninit, "none", r.s, r.cell,
                               NoVariant.v)

\* as(pos, data_type): to_varient(at(pos), data_type)
as ==
    \E pos \in ReadPositions, t \in Kinds :
    \E env \in Envs(build.little, FALSE, pos < m_size /\ Unsound, FALSE) :
        /\ status = "live"
        /\ LET r == at_(Col, pos, env)
               st == IF Running(r.s)
                     THEN to_varient_status(r.cell, t, build) ELSE r.s.status
               s == [r.s EXCEPT !.status = st,
                                !.assertion = IF st = "aborted"
                                              THEN "get_string_ptr" ELSE @]
           IN  /\ Becomes(s)
               /\ last' = Call("as", pos, Uninit, t, s, r.cell,
                               IF Running(s)
                               THEN to_varient(r.cell, t, build.little)
                               ELSE NoVariant.v)

write ==
    \E pos \in Positions, value \in Values(build.little) :
    \E env \in Envs(build.little, FALSE, pos < m_size /\ Unsound, FALSE) :
        /\ status = "live"
        /\ LET s == write_(Col, pos, value, env)
           IN  /\ Becomes(s)
               /\ last' = Call("write", pos, value, "none", s, Uninit,
                               NoVariant.v)

destroy ==
    /\ status = "live"
    /\ LET s == destroy_(Col)
       IN  /\ Becomes(s)
           /\ last' = Call("destroy", 0, Uninit, "none", s, Uninit,
                           NoVariant.v)

\* The calls that change the column.
Next ==
    \/ reserve
    \/ resize
    \/ write
    \/ destroy

Spec == Init /\ [][Next]_vars

\* The checked reads, on columns that resize has grown and shrunk.
AccessNext ==
    \/ resize
    \/ at
    \/ as

AccessSpec == Init /\ [][AccessNext]_vars

\* Only reserve and resize calls, and no allocation failure.
GrowNext ==
    \/ reserve /\ ~last'.nomem
    \/ resize /\ ~last'.nomem

GrowSpec == Init /\ [][GrowNext]_vars

----------------------------------------------------------------------------
(* CellSpec: the static cell functions, applied to bounded arguments       *)

Alphabet == {97, 98}
RECURSIVE StringsOfLen(_)
StringsOfLen(n) ==
    IF n = 0 THEN {<<>>}
    ELSE {Append(s, c) : s \in StringsOfLen(n - 1), c \in Alphabet}
\* Every string of up to three characters, and one of each greater length.
Strings ==
    UNION {StringsOfLen(n) : n \in 0..Min(MaxStrLen, 3)}
      \cup {[k \in 1..n |-> 97 + (k % 2)] : n \in 4..MaxStrLen}

IntArgs == {<<>>, <<0>>, <<1>>, <<-1>>, <<42>>}
FloatArgs == {<<>>, <<0>>, <<1>>}
CharArgs == {0, ArenaPtr}

Src(fn, arg) == [fn |-> fn, arg |-> arg]
NoSeen == [read |-> FALSE, chars |-> <<>>]

\* The kinds a cell may be projected with: null_value is legal for every
\* kind, the typed constructors for their own (data_table::column pairs a
\* type with its data_column).
KindsOf(fn) ==
    CASE fn = "null_value" -> Kinds
      [] fn = "from_int" -> {"INT"}
      [] fn = "from_float" -> {"FLOAT"}
      [] fn \in {"try_from_string", "try_from_char_"} -> {"STRING"}
      [] OTHER -> {}

ColumnIdle ==
    /\ status = "live"
    /\ m_res = FALSE
    /\ m_data = 0
    /\ m_size = 0
    /\ m_reserved = 0
    /\ heap = <<>>
    /\ misfrees = {}
    /\ last = NoCall

CellInit ==
    /\ build \in Builds
    /\ ColumnIdle
    /\ src = Src("none", <<>>)
    /\ cell = null_value
    /\ variant = NoVariant
    /\ seen = NoSeen

Made(fn, arg, value) ==
    /\ status = "live"
    /\ src' = Src(fn, arg)
    /\ cell' = value
    /\ variant' = NoVariant
    /\ seen' = NoSeen
    /\ UNCHANGED <<build, colvars>>

call_null_value == Made("null_value", <<>>, null_value)

call_from_int ==
    \E v \in IntArgs : Made("from_int", v, from_int(v, build.little))

call_from_float ==
    \E v \in FloatArgs : Made("from_float", v, from_float(v, build.little))

call_try_from_string ==
    \E s \in Strings :
        Made("try_from_string", s, try_from_string(s, build.little))

call_try_from_char_ ==
    \E p \in CharArgs :
        Made("try_from_char_", <<p>>, try_from_char_(p, build.little))

call_to_varient ==
    \E t \in KindsOf(src.fn) :
        /\ status = "live"
        /\ variant = NoVariant
        /\ status' = to_varient_status(cell, t, build)
        /\ variant' = IF status' = "live"
                      THEN [v |-> to_varient(cell, t, build.little), t |-> t]
                      ELSE variant
        /\ UNCHANGED <<build, m_res, m_data, m_size, m_reserved, heap,
                       misfrees, last, src, cell, seen>>

\* The caller reads the characters of the string_view it was handed.
read_view ==
    /\ status = "live"
    /\ variant # NoVariant
    /\ variant.v.index = "string_view"
    /\ ~seen.read
    /\ \E chars \in ViewReads(variant.v.sv) :
           seen' = [read |-> TRUE, chars |-> chars]
    /\ UNCHANGED <<build, colvars, src, cell, variant>>

CellNext ==
    \/ call_null_value
    \/ call_from_int
    \/ call_from_float
    \/ call_try_from_string
    \/ call_try_from_char_
    \/ call_to_varient
    \/ read_view

CellSpec == CellInit /\ [][CellNext]_vars

----------------------------------------------------------------------------
(* Claims about the column buffer                                          *)

\* The last call returned to its caller.
Returned == last.exc = "none" /\ status = "live"

\* C1: in every state reached by reserve and resize calls without
\* allocation failure, size <= reserved, and after resize(n) the provisioned
\* capacity is at least n.
C1_SizeWithinReserved ==
    status = "live" =>
        /\ m_size <= m_reserved
        /\ last.op = "resize" => m_reserved >= last.arg

\* C2: after resize(n, fill) returns, size = n, the cells of
\* [0, min(old size, n)) are unchanged and the cells of [old size, n) are
\* cells of the column holding fill.
C2_ResizePostcondition ==
    [][(last'.op = "resize" /\ last'.exc = "none" /\ status' = "live") =>
          /\ m_size' = last'.arg
          /\ \A i \in 0..(Min(m_size, last'.arg) - 1) :
                 Stored(heap, m_data, i) =>
                     /\ Stored(heap', m_data', i)
                     /\ Cells(heap', m_data')[i + 1] = Cells(heap, m_data)[i + 1]
          /\ \A i \in m_size..(last'.arg - 1) :
                 /\ Stored(heap', m_data', i)
                 /\ Cells(heap', m_data')[i + 1] = last'.value]_vars

\* C4: reserve(n), its allocation succeeding, leaves reserved >= n: for
\* n > reserved a new buffer of
\* exactly n cells holding the first size cells, the old one freed and
\* reserved = n; for n <= reserved nothing changes; size and the cells of
\* [0, size) stay as they were.
C4_ReservePostcondition ==
    [][(last'.op = "reserve" /\ last'.exc = "none" /\ ~last'.nomem) =>
          /\ m_reserved' >= last'.arg
          /\ IF last'.arg > m_reserved
             THEN /\ m_data' \in DOMAIN heap'
                  /\ heap'[m_data'].count = last'.arg
                  /\ m_data \notin DOMAIN heap'
                  /\ m_reserved' = last'.arg
             ELSE UNCHANGED <<m_data, m_reserved, heap>>
          /\ m_size' = m_size
          /\ \A i \in 0..(m_size - 1) :
                 Stored(heap, m_data, i) =>
                     /\ Stored(heap', m_data', i)
                     /\ Cells(heap', m_data')[i + 1] = Cells(heap, m_data)[i + 1]]_vars

\* C5: a growing resize(n) with n > reserved brings reserved to exactly
\* reserved + 2^k, k = max(3, bit_width(n) - 2), at least 8 more cells; with
\* n <= reserved it leaves reserved as it was.
C5_GrowthStep ==
    (last.op = "resize" /\ Returned /\ ~last.nomem
        /\ last.arg > last.old.size) =>
        IF last.arg > last.old.reserved
        THEN /\ m_reserved
                  = last.old.reserved + 2 ^ Max(3, bit_width(last.arg) - 2)
             /\ m_reserved >= last.old.reserved + 8
        ELSE m_reserved = last.old.reserved

\* C6: over every sequence of calls on a live column reserved never
\* decreases, and a resize that does not grow the column changes only size.
C6_ReservedNeverDecreases ==
    [][/\ m_reserved' >= m_reserved
       /\ (last'.op = "resize" /\ last'.arg <= m_size) =>
              /\ m_size' = last'.arg
              /\ UNCHANGED <<m_data, m_reserved, heap, misfrees, status>>]_vars

\* C6 witness: a resize has shrunk a column that holds a buffer, and its
\* capacity is still the one an earlier growth provisioned.
C6_Witness ==
    /\ last.op = "resize"
    /\ Returned
    /\ last.arg < last.old.size
    /\ m_size = last.arg
    /\ last.old.reserved > 0
    /\ m_reserved = last.old.reserved
    /\ m_data \in DOMAIN heap

\* C7: at(pos) and as(pos, kind) throw out_of_range exactly when
\* pos >= size; otherwise they return the cell the column stores at pos (as
\* projects it by kind); data, size and reserved are unchanged either way.
C7_CheckedAccess ==
    last.op \in {"at", "as"} =>
        /\ last.exc = "out_of_range" <=> last.arg >= last.old.size
        /\ last.arg < last.old.size =>
               /\ Stored(heap, m_data, last.arg)
               /\ last.result = Cells(heap, m_data)[last.arg + 1]
               /\ last.op = "as" =>
                      last.variant
                          = to_varient(last.result, last.kind, build.little)
        /\ m_data = last.old.data
        /\ m_size = last.old.size
        /\ m_reserved = last.old.reserved

\* C8: when the allocation inside reserve or a growing resize fails, the
\* old buffer is still the column's data and not freed, size and reserved
\* are unchanged, size <= reserved, and data = null implies size = 0 and
\* reserved = 0.
C8_AllocationFailure ==
    (last.op \in {"reserve", "resize"} /\ last.nomem) =>
        /\ m_data = last.old.data
        /\ m_data # 0 => m_data \in DOMAIN heap
        /\ m_size = last.old.size
        /\ m_reserved = last.old.reserved
        /\ m_size <= m_reserved
        /\ m_data = 0 => (m_size = 0 /\ m_reserved = 0)

\* C10: every deallocation releases a live buffer of the same allocator
\* with the count it was allocated with, greater than zero; the assert of
\* dealloc_ never fails; after destruction no buffer is left allocated.
C10_Deallocation ==
    /\ misfrees = {}
    /\ last.assertion # "dealloc_"
    /\ status = "destroyed" => DOMAIN heap = {}

----------------------------------------------------------------------------
(* Claims about the cell functions                                         *)

Projected == variant.t # "none"

\* C3 as stated: to_varient(null_value(), k) is the null variant for every
\* kind k.
C3_NullForEveryKind ==
    (src.fn = "null_value" /\ Projected) => variant.v = NullVariant

\* C3: to_varient(null_value(), STRING) is the null variant; for INT it is
\* the integer 0 and for FLOAT the double 0.0.
C3_NullProjection ==
    (src.fn = "null_value" /\ Projected) =>
        CASE variant.t = "STRING" -> variant.v = NullVariant
          [] variant.t = "INT" ->
                variant.v
                    = Variant("int64_t", from_int(<<0>>, build.little), NoView)
          [] variant.t = "FLOAT" ->
                variant.v
                    = Variant("double", from_float(<<0>>, build.little), NoView)

\* C3 witness: the null cell has been projected as a STRING.
C3_Witness ==
    src.fn = "null_value" /\ variant.t = "STRING" /\ status = "live"

\* C9: for 1 <= len(s) <= 6, try_from_string(s) is an inline cell with tag
\* byte len(s) and zero unused bytes, whose STRING projection reads as s;
\* for len(s) = 0 or len(s) > 6 it is the null cell, projected to null.
C9_InlineRoundTrip ==
    src.fn = "try_from_string" =>
        LET s == src.arg
            n == Len(s)
        IN  IF n \in 1..6
            THEN /\ cell[TagIndex(build.little)] = n
                 /\ \A k \in 1..CellBytes :
                        (k # TagIndex(build.little)
                            /\ k - CharBase(build.little) \notin 1..n) =>
                            cell[k] = 0
                 /\ Projected =>
                        /\ variant.v.index = "string_view"
                        /\ variant.v.sv.size = n
                 /\ seen.read => seen.chars = s
            ELSE /\ cell = null_value
                 /\ Projected => variant.v = NullVariant

====
